---- MODULE Spec2Model ----
(***************************************************************************)
(* A model of compyle: the expression tree (numbers.py, variables.py,      *)
(* operators.py), its specialization and its evaluation through generated  *)
(* Python source (transpyle.py), and the interpreter loop (interpret.py).  *)
(*                                                                         *)
(* Two specifications:                                                     *)
(*   Spec            the interpreter loop eval(), fed one instruction at a *)
(*                   time from its lazily consumed instruction stream;     *)
(*   SpecExpression  specialize / evaluate / the decimal parse rule as     *)
(*                   functions, applied to an expression e and a namespace *)
(*                   ns drawn from bounded sets.                           *)
(***************************************************************************)
EXTENDS Integers, Sequences, FiniteSets, TLC

VARIABLES
    namespace,   \* interpret.eval: the loop's current namespace
    results,     \* the items the generator eval() has yielded so far
    consumed,    \* the instructions the loop has taken from its stream
    status,      \* "running", or "raised" once an exception left eval()
    raised,      \* the exception that left eval() (NoError while running)
    compiles,    \* per bound identifier: compilations of the instance bound to it
    e,           \* SpecExpression: the expression under test
    ns,          \* SpecExpression: the namespace under test
    parsed,      \* SpecExpression: the decimal text e was parsed from (<<>>: none)
    applied      \* SpecExpression: the operation applied to (e, ns) and its result

vars == <<namespace, results, consumed, status, raised, compiles, e, ns, parsed, applied>>

loopVars == <<namespace, results, consumed, status, raised, compiles>>

exprVars == <<e, ns, parsed, applied>>

-----------------------------------------------------------------------------
(* Bounds of the model *)

\* the interpreter loop takes at most this many instructions
MaxSteps == 3

\* integer literals of the trees under test range over 0 .. MaxInt, and the
\* parts of the literal operands under test over -MaxInt .. MaxInt
MaxInt == 2

\* numerators and denominators of the rational literals under test range
\* over -MaxPart .. MaxPart
MaxPart == 4

\* the whole and the fractional part of a decimal text have at most this
\* many digits each
MaxDigits == 2

\* a compilation count is kept exactly below this value; the value itself
\* means "this many or more"
MaxCompiles == 2

-----------------------------------------------------------------------------
(* Runtime values of the generated Python code.  Every number carries its   *)
(* Python type and its value as a reduced fraction; a float is represented  *)
(* by the rational it approximates.                                         *)

Identifier == {"a", "b"}

Symbols == {"+", "-", "*", "/"}

ErrorTypes == {"KeyError", "ZeroDivisionError", "RecursionError",
               "CompylationError", "AssertionError"}

NumberTypes == {"int", "PyInteger", "PyFraction", "float"}

Error(t) == [type |-> t]

KeyError(key) == [type |-> "KeyError", key |-> key]

NoError == [type |-> "None"]

IsError(v) == v.type \in ErrorTypes

Abs(n) == IF n < 0 THEN -n ELSE n

RECURSIVE GCD(_, _)
GCD(m, n) == IF n = 0 THEN Abs(m) ELSE GCD(Abs(n), Abs(m) % Abs(n))

Number(t, n, d) ==
    LET g == GCD(n, d)
        s == IF d < 0 THEN -1 ELSE 1
    IN  [type |-> t, numerator |-> s * (n \div g), denominator |-> s * (d \div g)]

\* int subclass of numbers.py: the value is the integer itself
PyInteger(value) == [type |-> "PyInteger", numerator |-> value, denominator |-> 1]

\* fractions.Fraction(n, d): reduced, the sign in the numerator
PyFraction(n, d) ==
    IF d = 0 THEN Error("ZeroDivisionError") ELSE Number("PyFraction", n, d)

Integral(v) == v.type \in {"int", "PyInteger"}

\* Python's binary operator on two runtime numbers.  PyInteger overrides only
\* __truediv__, and only for a PyInteger divisor: + - * fall to int and return
\* a plain int, and a division with a plain int on either side is int's true
\* division, a float.
PyOperator(symbol, l, r) ==
    LET n == CASE symbol = "+" -> l.numerator * r.denominator + r.numerator * l.denominator
               [] symbol = "-" -> l.numerator * r.denominator - r.numerator * l.denominator
               [] symbol = "*" -> l.numerator * r.numerator
               [] symbol = "/" -> l.numerator * r.denominator
        d == IF symbol = "/" THEN l.denominator * r.numerator
                             ELSE l.denominator * r.denominator
    IN  IF symbol = "/" /\ r.numerator = 0 THEN Error("ZeroDivisionError")
        ELSE IF "float" \in {l.type, r.type} THEN Number("float", n, d)
        ELSE IF "PyFraction" \in {l.type, r.type} THEN PyFraction(n, d)
        ELSE IF symbol # "/" THEN Number("int", n, d)
        ELSE IF l.type = "PyInteger" /\ r.type = "PyInteger"
             THEN PyFraction(l.numerator, r.numerator)
        ELSE Number("float", n, d)

-----------------------------------------------------------------------------
(* The expression tree *)

Integer(value) == [type |-> "Integer", value |-> value]

Fraction(numerator, denominator) ==
    [type |-> "Fraction", numerator |-> numerator, denominator |-> denominator]

Reference(identifier) == [type |-> "Reference", identifier |-> identifier]

OperatorBinary(symbol, children) ==
    [type |-> "OperatorBinary", symbol |-> symbol, children |-> children]

VALUE_TYPES == {"Integer", "Fraction"}

\* a faulty variant of value_expression: every value goes to the int converter
value_expression_as_int(value) ==
    IF value.type \in NumberTypes THEN Integer(value.numerator)
    ELSE Error("CompylationError")

\* singledispatch on the value's type: int (PyInteger included) and Fraction
\* are registered, anything else reaches the default and raises
value_expression(value) ==
    IF Integral(value) THEN Integer(value.numerator)
    ELSE IF value.type = "PyFraction" THEN Fraction(value.numerator, value.denominator)
    ELSE Error("CompylationError")

\* Integer.evaluate: no generated code, the value is built directly
Integer_evaluate(x) == PyInteger(x.value)

\* a faulty variant of Fraction.evaluate: numerator and denominator swapped
Fraction_evaluate_swapped(x) == PyFraction(x.denominator, x.numerator)

\* Fraction.evaluate: no generated code, the value is built directly
Fraction_evaluate(x) == PyFraction(x.numerator, x.denominator)

\* the keys of names.bound: the constants a node's generated source refers to
RECURSIVE bound(_)
bound(x) ==
    CASE x.type = "Integer" -> {"__PyInteger__"}
      [] x.type = "Fraction" -> {"__PyFraction__"}
      [] x.type = "Reference" -> {}
      [] x.type = "OperatorBinary" -> bound(x.children[1]) \cup bound(x.children[2])

-----------------------------------------------------------------------------
(* Code generation and execution (transpyle.py).  The generated source is   *)
(* a line of Python text; it is modelled as its token sequence, a call for  *)
(* every leaf and an operator symbol between two operands.                  *)

Call(leaf) == [kind |-> "call", of |-> leaf]

Op(symbol) == [kind |-> "op", symbol |-> symbol]

\* Expression.transpyle().source: Integer "__PyInteger__(v)", Fraction
\* "__PyFraction__(n, d)", Reference "__namespace__['x'].evaluate(__namespace__)",
\* OperatorBinary "{lhs source} {symbol} {rhs source}"
RECURSIVE transpyle(_)
transpyle(x) ==
    IF x.type = "OperatorBinary"
    THEN transpyle(x.children[1]) \o <<Op(x.symbol)>> \o transpyle(x.children[2])
    ELSE <<Call(x)>>

\* the last operator of the source among the given symbols (0: none)
LastOperator(source, symbols) ==
    LET at == {i \in 1..Len(source) :
                 source[i].kind = "op" /\ source[i].symbol \in symbols}
    IN  IF at = {} THEN 0 ELSE CHOOSE i \in at : \A j \in at : j <= i

\* Transpylation.__compile: Python's compile(source, source, "eval").  The
\* grammar groups the text: * and / bind tighter than + and -, and operators
\* of one level group to the left.
RECURSIVE compile(_)
compile(source) ==
    LET additive == LastOperator(source, {"+", "-"})
        k == IF additive > 0 THEN additive ELSE LastOperator(source, {"*", "/"})
    IN  IF k = 0 THEN [node |-> "Call", of |-> source[1].of]
        ELSE [node |-> "BinOp", op |-> source[k].symbol,
              left |-> compile(SubSeq(source, 1, k - 1)),
              right |-> compile(SubSeq(source, k + 1, Len(source)))]

NoCompilations == [id \in Identifier |-> 0]

Saturate(n) == IF n > MaxCompiles THEN MaxCompiles ELSE n

\* compilations of two runs, one after the other
Both(c1, c2) == [id \in Identifier |-> Saturate(c1[id] + c2[id])]

\* the identifiers of a call chain from the first entry of id on
Cycle(stack, id) ==
    LET first == CHOOSE i \in 1..Len(stack) :
                    stack[i] = id /\ \A j \in 1..(i - 1) : stack[j] # id
    IN  {stack[i] : i \in first..Len(stack)}

\* Expression.evaluate / Integer.evaluate / Fraction.evaluate and
\* Transpylation.evaluate.  The result is the value (or the exception raised)
\* and, per identifier, how often the expression instance bound to it was
\* compiled on the way.  stack is the chain of identifiers whose bound
\* expressions are being evaluated: a reference to one of them re-enters the
\* same evaluation and recurses until Python's recursion limit.
RECURSIVE evaluate(_, _, _)
RECURSIVE PyEval(_, _, _)
PyEval(code, __namespace__, stack) ==
    IF code.node = "BinOp"
    THEN LET l == PyEval(code.left, __namespace__, stack)
         IN  IF IsError(l.value) THEN l
             ELSE LET r == PyEval(code.right, __namespace__, stack)
                      c == Both(l.compiled, r.compiled)
                  IN  IF IsError(r.value) THEN [value |-> r.value, compiled |-> c]
                      ELSE [value |-> PyOperator(code.op, l.value, r.value),
                            compiled |-> c]
    ELSE IF code.of.type = "Integer"
    THEN [value |-> PyInteger(code.of.value), compiled |-> NoCompilations]
    ELSE IF code.of.type = "Fraction"
    THEN [value |-> PyFraction(code.of.numerator, code.of.denominator),
          compiled |-> NoCompilations]
    ELSE LET id == code.of.identifier
         IN  IF id \notin DOMAIN __namespace__
             THEN [value |-> KeyError(id), compiled |-> NoCompilations]
             ELSE IF \E i \in 1..Len(stack) : stack[i] = id
             THEN [value |-> Error("RecursionError"),
                   compiled |-> [x \in Identifier |->
                                   IF x \in Cycle(stack, id) THEN MaxCompiles ELSE 0]]
             ELSE LET r == evaluate(__namespace__[id], __namespace__, Append(stack, id))
                      own == [x \in Identifier |->
                                IF x = id /\ __namespace__[id].type \notin VALUE_TYPES
                                THEN 1 ELSE 0]
                  IN  [value |-> r.value, compiled |-> Both(own, r.compiled)]

evaluate(x, namespace_, stack) ==
    IF x.type = "Integer"
    THEN [value |-> Integer_evaluate(x), compiled |-> NoCompilations]
    ELSE IF x.type = "Fraction"
    THEN [value |-> Fraction_evaluate(x), compiled |-> NoCompilations]
    ELSE IF bound(x) \cap DOMAIN namespace_ # {}
    THEN [value |-> Error("AssertionError"), compiled |-> NoCompilations]
    ELSE PyEval(compile(transpyle(x)), namespace_, stack)

\* the value of x.evaluate(namespace)
Value(x, namespace_) == evaluate(x, namespace_, <<>>).value

-----------------------------------------------------------------------------
(* Specialization (numbers.py, variables.py, operators.py).  The result is  *)
(* an expression, or the exception the call raises.                         *)

RECURSIVE specialize(_, _, _)
specialize(x, namespace_, stack) ==
    CASE x.type \in VALUE_TYPES -> x
      [] x.type = "Reference" ->
            IF x.identifier \notin DOMAIN namespace_ THEN x
            ELSE IF \E i \in 1..Len(stack) : stack[i] = x.identifier
            THEN Error("RecursionError")
            ELSE specialize(namespace_[x.identifier], namespace_,
                            Append(stack, x.identifier))
      [] x.type = "OperatorBinary" ->
            LET lhs == specialize(x.children[1], namespace_, stack)
            IN  IF IsError(lhs) THEN lhs
                ELSE LET rhs == specialize(x.children[2], namespace_, stack)
                         specialization == OperatorBinary(x.symbol, <<lhs, rhs>>)
                     IN  IF IsError(rhs) THEN rhs
                         ELSE IF lhs.type \in VALUE_TYPES /\ rhs.type \in VALUE_TYPES
                         THEN LET value == Value(specialization, namespace_)
                              IN  IF IsError(value) THEN value
                                  ELSE value_expression(value)
                         ELSE specialization

\* x.specialize(namespace)
Specialize(x, namespace_) == specialize(x, namespace_, <<>>)

\* x.specialize(namespace) is x, for a call that returns: a literal returns
\* self, a Reference returns self when its identifier is not bound and what
\* the replacement specializes to when it is, and OperatorBinary returns a new
\* OperatorBinary or the new literal value_expression builds
is_self(x, namespace_) ==
    CASE x.type \in VALUE_TYPES -> TRUE
      [] x.type = "Reference" -> x.identifier \notin DOMAIN namespace_
      [] x.type = "OperatorBinary" -> FALSE

-----------------------------------------------------------------------------
(* The decimal rule of the parser (parser.py): the matched text, a sequence *)
(* of characters -?\d+\.\d+, becomes a Fraction literal.                    *)

DigitValue == [c \in {"0", "1", "2", "3", "4", "5", "6", "7", "8", "9"} |->
                 CASE c = "0" -> 0 [] c = "1" -> 1 [] c = "2" -> 2 [] c = "3" -> 3
                   [] c = "4" -> 4 [] c = "5" -> 5 [] c = "6" -> 6 [] c = "7" -> 7
                   [] c = "8" -> 8 [] c = "9" -> 9]

\* str.replace(c, "")
RECURSIVE Remove(_, _)
Remove(text, c) ==
    IF text = <<>> THEN <<>>
    ELSE IF Head(text) = c THEN Remove(Tail(text), c)
    ELSE <<Head(text)>> \o Remove(Tail(text), c)

\* int() of a digit string
RECURSIVE Digits(_)
Digits(text) ==
    IF text = <<>> THEN 0
    ELSE 10 * Digits(SubSeq(text, 1, Len(text) - 1)) + DigitValue[text[Len(text)]]

\* int() of an optionally signed digit string
int(text) == IF Head(text) = "-" THEN -Digits(Tail(text)) ELSE Digits(text)

\* str.index(c), counted from 0
index(text, c) == (CHOOSE i \in 1..Len(text) :
                      text[i] = c /\ \A j \in 1..(i - 1) : text[j] # c) - 1

RECURSIVE Power(_, _)
Power(base, n) == IF n = 0 THEN 1 ELSE base * Power(base, n - 1)

decimal(text) ==
    Fraction(int(Remove(text, ".")), Power(10, Len(text) - index(text, ".") - 1))

-----------------------------------------------------------------------------
(* The interpreter loop (interpret.py) *)

Assign(name, expression) == [type |-> "Assign", name |-> name, expression |-> expression]

Evaluate(expression) == [type |-> "Evaluate", expression |-> expression]

\* the diagnostic f"NameError: name {key!r} is not defined"
NameError(key) == [type |-> "str", text |-> <<"NameError: name ", key, " is not defined">>]

\* a faulty variant of eval_assign: the earlier bindings are dropped
eval_assign_forgetting(instruction, namespace_) ==
    LET expression == Specialize(instruction.expression, <<>>)
    IN  IF IsError(expression)
        THEN [raised |-> expression, namespace |-> namespace_, changed |-> FALSE]
        ELSE [raised |-> NoError, namespace |-> (instruction.name :> expression),
              changed |-> ~is_self(instruction.expression, <<>>)]

\* eval_assign: the next namespace, or the exception specialize raises.  The
\* expression is specialized against the empty namespace {}; changed is the
\* comparison "expression is not instruction.expression", which selects the
\* debug line with the new source.
eval_assign(instruction, namespace_) ==
    LET expression == Specialize(instruction.expression, <<>>)
    IN  IF IsError(expression)
        THEN [raised |-> expression, namespace |-> namespace_, changed |-> FALSE]
        ELSE [raised |-> NoError,
              namespace |-> (instruction.name :> expression) @@ namespace_,
              changed |-> ~is_self(instruction.expression, <<>>)]

\* eval_evaluate: the value, the diagnostic for a KeyError, or the exception
\* that is not caught; and the compilations the evaluation performed
eval_evaluate(instruction, namespace_) ==
    LET run == evaluate(instruction.expression, namespace_, <<>>)
    IN  IF run.value.type = "KeyError"
        THEN [value |-> NameError(run.value.key), compiled |-> run.compiled]
        ELSE run

\* what the parser hands to the loop: leaves and one operator over two leaves
LoopIntegers == {0, 2}

LoopSymbols == {"+", "/"}

LoopLeaves == {Integer(i) : i \in LoopIntegers} \cup {Reference(id) : id \in Identifier}

LoopExpressions ==
    LoopLeaves \cup
    {OperatorBinary(s, <<l, r>>) : s \in LoopSymbols, l \in LoopLeaves, r \in LoopLeaves}

Idle == [op |-> "none"]

LoopInit ==
    /\ namespace = <<>>
    /\ results = <<>>
    /\ consumed = <<>>
    /\ status = "running"
    /\ raised = NoError
    /\ compiles = NoCompilations

Init ==
    /\ LoopInit
    /\ e = Integer(0)
    /\ ns = <<>>
    /\ parsed = <<>>
    /\ applied = Idle

\* the loop takes an Assign from the stream
DoAssign(instruction) ==
    /\ status = "running"
    /\ Len(consumed) < MaxSteps
    /\ consumed' = Append(consumed, instruction)
    /\ LET next == eval_assign(instruction, namespace)
       IN  IF IsError(next.raised)
           THEN /\ status' = "raised"
                /\ raised' = next.raised
                /\ UNCHANGED <<namespace, compiles>>
           ELSE /\ namespace' = next.namespace
                /\ compiles' = [compiles EXCEPT ![instruction.name] = 0]
                /\ UNCHANGED <<status, raised>>
    /\ UNCHANGED results
    /\ UNCHANGED exprVars

\* the loop takes an Evaluate from the stream
DoEvaluate(instruction) ==
    /\ status = "running"
    /\ Len(consumed) < MaxSteps
    /\ consumed' = Append(consumed, instruction)
    /\ LET run == eval_evaluate(instruction, namespace)
       IN  /\ compiles' = Both(compiles, run.compiled)
           /\ IF IsError(run.value)
              THEN /\ status' = "raised"
                   /\ raised' = run.value
                   /\ UNCHANGED results
              ELSE /\ results' = Append(results, run.value)
                   /\ UNCHANGED <<status, raised>>
    /\ UNCHANGED namespace
    /\ UNCHANGED exprVars

AssignStep ==
    \E name \in Identifier, x \in LoopExpressions : DoAssign(Assign(name, x))

EvaluateStep ==
    \E x \in LoopExpressions : DoEvaluate(Evaluate(x))

Next == AssignStep \/ EvaluateStep

Spec == Init /\ [][Next]_vars

-----------------------------------------------------------------------------
(* specialize, evaluate and the decimal rule applied to an expression e and *)
(* a namespace ns                                                           *)

\* leaves of the trees under test
Leaves ==
    {Integer(i) : i \in 0..MaxInt} \cup {Fraction(1, 2)} \cup
    {Reference(id) : id \in Identifier}

\* the literals the parser can produce: an integer, or numerator : denominator
Literals ==
    {Integer(i) : i \in -MaxInt..MaxInt} \cup
    {Fraction(n, d) : n \in -MaxInt..MaxInt, d \in -MaxInt..MaxInt}

Fractions == {Fraction(n, d) : n \in -MaxPart..MaxPart, d \in -MaxPart..MaxPart}

Operators(lefts, rights) ==
    {OperatorBinary(s, <<l, r>>) : s \in Symbols, l \in lefts, r \in rights}

\* trees of depth up to two, and every operator over two literals
Expressions ==
    Leaves \cup Literals \cup Fractions \cup Operators(Literals, Literals) \cup
    Operators(Leaves, Leaves) \cup
    Operators(Operators(Leaves, Leaves), Leaves) \cup
    Operators(Leaves, Operators(Leaves, Leaves))

\* namespaces as the interpreter loop builds them: every bound expression is
\* the result of an earlier specialize({})
Namespaces ==
    { <<>>,
      ("a" :> Integer(2)),
      ("a" :> Fraction(1, 2)) @@ ("b" :> Integer(0)),
      ("a" :> OperatorBinary("+", <<Reference("b"), Integer(1)>>)) @@ ("b" :> Integer(2)),
      ("a" :> Reference("b")),
      ("a" :> Reference("a")),
      ("a" :> Reference("b")) @@ ("b" :> OperatorBinary("*", <<Integer(2), Reference("a")>>)) }

DigitStrings ==
    UNION {[1..n -> {"0", "1", "2", "9"}] : n \in 1..MaxDigits}

\* the texts the decimal rule matches: -?\d+\.\d+
DecimalTexts ==
    {sign \o whole \o <<".">> \o fraction :
        sign \in {<<>>, <<"-">>}, whole \in DigitStrings, fraction \in DigitStrings}

InitExpression ==
    /\ LoopInit
    /\ \/ parsed = <<>> /\ e \in Expressions /\ ns \in Namespaces
       \/ parsed \in DecimalTexts /\ e = decimal(parsed)
          /\ ns \in {<<>>, ("a" :> Integer(2))}
    /\ applied = Idle

\* e.specialize(ns), whether it returned e itself, and the result specialized
\* once more
ApplySpecialize ==
    /\ applied = Idle
    /\ LET result == Specialize(e, ns)
       IN  applied' = [op |-> "specialize", result |-> result,
                       same |-> ~IsError(result) /\ is_self(e, ns),
                       again |-> IF IsError(result) THEN result
                                 ELSE Specialize(result, ns)]
    /\ UNCHANGED <<e, ns, parsed>>
    /\ UNCHANGED loopVars

\* e.evaluate(ns)
ApplyEvaluate ==
    /\ applied = Idle
    /\ applied' = [op |-> "evaluate", value |-> Value(e, ns)]
    /\ UNCHANGED <<e, ns, parsed>>
    /\ UNCHANGED loopVars

\* e.specialize(ns).evaluate(ns)
ApplySpecializeEvaluate ==
    /\ applied = Idle
    /\ LET result == Specialize(e, ns)
       IN  applied' = [op |-> "specialize_evaluate",
                       value |-> IF IsError(result) THEN result ELSE Value(result, ns)]
    /\ UNCHANGED <<e, ns, parsed>>
    /\ UNCHANGED loopVars

NextExpression == ApplySpecialize \/ ApplyEvaluate \/ ApplySpecializeEvaluate

SpecExpression == InitExpression /\ [][NextExpression]_vars

-----------------------------------------------------------------------------
(* Exact rational arithmetic, by which the claims measure the code *)

Rational(n, d) == [n |-> n, d |-> d]

Undefined == [n |-> 0, d |-> 0]

\* the rational a literal node denotes (Undefined for a zero denominator)
Denotes(x) ==
    IF x.type = "Integer" THEN Rational(x.value, 1)
    ELSE Rational(x.numerator, x.denominator)

\* the operator on two rationals (Undefined for a division by zero)
Exact(symbol, p, q) ==
    IF p.d = 0 \/ q.d = 0 \/ (symbol = "/" /\ q.n = 0) THEN Undefined
    ELSE CASE symbol = "+" -> Rational(p.n * q.d + q.n * p.d, p.d * q.d)
           [] symbol = "-" -> Rational(p.n * q.d - q.n * p.d, p.d * q.d)
           [] symbol = "*" -> Rational(p.n * q.n, p.d * q.d)
           [] symbol = "/" -> Rational(p.n * q.d, p.d * q.n)

\* a runtime number equals the rational p
Equals(v, p) ==
    /\ v.type \in NumberTypes
    /\ p.d # 0
    /\ v.numerator * p.d = p.n * v.denominator

\* two runtime numbers are equal (Python's ==)
SameNumber(v, w) ==
    /\ v.type \in NumberTypes
    /\ w.type \in NumberTypes
    /\ v.numerator * w.denominator = w.numerator * v.denominator

Last(s) == s[Len(s)]

\* the step takes an instruction of the given type from the stream
Takes(type) ==
    /\ Len(consumed') = Len(consumed) + 1
    /\ Last(consumed').type = type

-----------------------------------------------------------------------------
(* C1: every Assign{name, expression} processed with current namespace ns   *)
(* makes the next namespace map name to specialize(expression, ns): the     *)
(* references bound in ns are substituted at assignment time.               *)
C1_AssignSpecializesAgainstNamespace ==
    [][ (/\ Takes("Assign")
         /\ ~IsError(Specialize(Last(consumed').expression, namespace)))
        => /\ status' = "running"
           /\ namespace' =
                (Last(consumed').name :>
                    Specialize(Last(consumed').expression, namespace)) @@ namespace
      ]_vars

-----------------------------------------------------------------------------
(* C2: executing the compiled artifact of a BinaryOperator (symbol, left,   *)
(* right) in a namespace where all references resolve yields symbol applied *)
(* to (the value of left, the value of right): the grouping of the tree is  *)
(* preserved whatever the precedence of the symbols.                        *)
C2_TreeGroupingPreserved ==
    (applied.op = "evaluate" /\ e.type = "OperatorBinary")
    => LET l == Value(e.children[1], ns)
           r == Value(e.children[2], ns)
       IN  (~IsError(l) /\ ~IsError(r) /\ ~IsError(PyOperator(e.symbol, l, r)))
           => SameNumber(applied.value, PyOperator(e.symbol, l, r))

-----------------------------------------------------------------------------
(* C3: whenever "/" is applied to two whole-number values, in execution by  *)
(* evaluate and in constant folding by specialize, the result is a whole    *)
(* number if the divisor divides the dividend evenly and an exact rational  *)
(* otherwise, never a float.  The claim is read in its weakest form: an     *)
(* exact value of denominator 1 counts as a whole number whatever its type. *)
DividesEvenly(l, r) == l % Abs(r) = 0

\* an exact (not floating-point) whole number
WholeNumber(v) ==
    v.type \in {"int", "PyInteger", "PyFraction"} /\ v.denominator = 1

C3_WholeNumberDivisionExact ==
    /\ applied.op = "evaluate" /\ e.type \notin VALUE_TYPES
       => LET code == compile(transpyle(e))
          IN  code.node = "BinOp" /\ code.op = "/"
              => LET l == PyEval(code.left, ns, <<>>).value
                     r == PyEval(code.right, ns, <<>>).value
                 IN  (/\ ~IsError(l) /\ ~IsError(r)
                      /\ Integral(l) /\ Integral(r) /\ r.numerator # 0)
                     => /\ Equals(applied.value, Rational(l.numerator, r.numerator))
                        /\ IF DividesEvenly(l.numerator, r.numerator)
                           THEN WholeNumber(applied.value)
                           ELSE applied.value.type = "PyFraction"
    /\ applied.op = "specialize" /\ e.type = "OperatorBinary" /\ e.symbol = "/"
       => LET lhs == Specialize(e.children[1], ns)
              rhs == Specialize(e.children[2], ns)
          IN  (/\ lhs.type = "Integer" /\ rhs.type = "Integer" /\ rhs.value # 0)
              => IF DividesEvenly(lhs.value, rhs.value)
                 THEN \/ applied.result.type = "Integer"
                      \/ applied.result.type = "Fraction" /\ applied.result.denominator = 1
                 ELSE applied.result.type = "Fraction"

-----------------------------------------------------------------------------
(* C4: an Evaluate whose expression reaches, directly or through bound      *)
(* expressions, a reference to an identifier with no current binding        *)
(* produces exactly one diagnostic result, leaves the namespace unchanged   *)
(* and does not abort the loop.                                             *)

\* the unbound identifiers x reaches, directly or through bound expressions
RECURSIVE Unbound(_, _, _)
Unbound(x, namespace_, seen) ==
    CASE x.type \in VALUE_TYPES -> {}
      [] x.type = "Reference" ->
            IF x.identifier \notin DOMAIN namespace_ THEN {x.identifier}
            ELSE IF x.identifier \in seen THEN {}
            ELSE Unbound(namespace_[x.identifier], namespace_, seen \cup {x.identifier})
      [] x.type = "OperatorBinary" ->
            Unbound(x.children[1], namespace_, seen) \cup
            Unbound(x.children[2], namespace_, seen)

C4_UnresolvedReferenceIsolated ==
    [][ (/\ Takes("Evaluate")
         /\ Unbound(Last(consumed').expression, namespace, {}) # {})
        => /\ status' = "running"
           /\ namespace' = namespace
           /\ Len(results') = Len(results) + 1
           /\ Last(results').type = "str"
      ]_vars

-----------------------------------------------------------------------------
(* C5: a reference still free in an expression stored by Assign is resolved *)
(* at execution time: if b is assigned an expression referring to a while a *)
(* is unbound, and a is assigned afterwards, a later Evaluate that uses b   *)
(* computes b's expression with the binding of a current at that Evaluate   *)
(* (b := a + 2; a := 2 + 2; Evaluate(b + a) yields 10).  A float result is  *)
(* compared as the rational it approximates.                                *)

\* the Assigns to id among the instructions before the k-th
AssignsTo(id, k) ==
    {i \in 1..(k - 1) : consumed[i].type = "Assign" /\ consumed[i].name = id}

\* the last of them (0: none)
LatestAssign(id, k) ==
    IF AssignsTo(id, k) = {} THEN 0
    ELSE CHOOSE i \in AssignsTo(id, k) : \A j \in AssignsTo(id, k) : j <= i

\* the identifiers an expression refers to
RECURSIVE References(_)
References(x) ==
    CASE x.type \in VALUE_TYPES -> {}
      [] x.type = "Reference" -> {x.identifier}
      [] x.type = "OperatorBinary" ->
            References(x.children[1]) \cup References(x.children[2])

\* what x means at the k-th instruction: every reference stands for the
\* expression last assigned to it before k, which is read the same way
RECURSIVE Meaning(_, _, _)
Meaning(x, k, seen) ==
    CASE x.type \in VALUE_TYPES -> Denotes(x)
      [] x.type = "Reference" ->
            IF LatestAssign(x.identifier, k) = 0 \/ x.identifier \in seen THEN Undefined
            ELSE Meaning(consumed[LatestAssign(x.identifier, k)].expression, k,
                         seen \cup {x.identifier})
      [] x.type = "OperatorBinary" ->
            Exact(x.symbol, Meaning(x.children[1], k, seen),
                            Meaning(x.children[2], k, seen))

\* the k-th instruction is an Evaluate using b, b's expression refers to a,
\* a was unbound when b was assigned and has been assigned since
LateBound(k, b, a) ==
    /\ consumed[k].type = "Evaluate"
    /\ b \in References(consumed[k].expression)
    /\ LatestAssign(b, k) > 0
    /\ a \in References(consumed[LatestAssign(b, k)].expression)
    /\ AssignsTo(a, LatestAssign(b, k)) = {}
    /\ LatestAssign(a, k) > LatestAssign(b, k)

\* the place in the results of the k-th instruction, an Evaluate
ResultIndex(k) == Cardinality({j \in 1..k : consumed[j].type = "Evaluate"})

C5_FreeReferenceResolvedAtEvaluate ==
    \A k \in 1..Len(consumed) : \A a \in Identifier, b \in Identifier :
        (LateBound(k, b, a) /\ Meaning(consumed[k].expression, k, {}).d # 0)
        => /\ Len(results) >= ResultIndex(k)
           /\ Equals(results[ResultIndex(k)], Meaning(consumed[k].expression, k, {}))

C5_Witness ==
    /\ consumed =
         << Assign("b", OperatorBinary("+", <<Reference("a"), Integer(2)>>)),
            Assign("a", OperatorBinary("+", <<Integer(2), Integer(2)>>)),
            Evaluate(OperatorBinary("+", <<Reference("b"), Reference("a")>>)) >>
    /\ results = << Number("int", 10, 1) >>

-----------------------------------------------------------------------------
(* C6: the result sequence of the loop has exactly one item per Evaluate    *)
(* and none per Assign, in program order: the k-th result is the outcome of *)
(* the k-th Evaluate against the namespace built from exactly the Assigns   *)
(* that precede it.                                                         *)

\* the namespace built from the Assigns among the first k instructions
RECURSIVE NamespaceAfter(_)
NamespaceAfter(k) ==
    IF k = 0 THEN <<>>
    ELSE IF consumed[k].type = "Assign"
    THEN eval_assign(consumed[k], NamespaceAfter(k - 1)).namespace
    ELSE NamespaceAfter(k - 1)

C6_OneResultPerEvaluate ==
    LET evaluates == {k \in 1..Len(consumed) : consumed[k].type = "Evaluate"}
    IN  /\ Len(results) = Cardinality(evaluates)
        /\ \A k \in evaluates :
              results[ResultIndex(k)] =
                  eval_evaluate(consumed[k], NamespaceAfter(k - 1)).value

\* the same, as long as no instruction has raised
OneResultPerEvaluateWhileRunning ==
    status = "running" => C6_OneResultPerEvaluate

-----------------------------------------------------------------------------
(* C7: for every expression instance the compiled artifact is created at    *)
(* most once, however often the instance is evaluated.                      *)
C7_CompiledAtMostOnce ==
    \A id \in Identifier : compiles[id] <= 1

-----------------------------------------------------------------------------
(* C8: specialize is idempotent: specialize(specialize(e, ns), ns) is       *)
(* defined and equals specialize(e, ns), for every expression and every     *)
(* namespace, those the interpreter loop can build included.                *)
C8_SpecializeIdempotent ==
    applied.op = "specialize"
    => /\ ~IsError(applied.result)
       /\ ~IsError(applied.again)
       /\ applied.again = applied.result

-----------------------------------------------------------------------------
(* C9, as amended: for a BinaryOperator whose two children specialize to    *)
(* literals, specialize returns a literal whose value is the operator       *)
(* applied to the two literal values whenever that is defined, and raises   *)
(* ZeroDivisionError when it is not (a zero divisor, a zero denominator);   *)
(* when a specialized child is not a literal, it returns a BinaryOperator   *)
(* with the same symbol over the specialized children.                      *)
C9_FoldingCorrect ==
    (applied.op = "specialize" /\ e.type = "OperatorBinary")
    => LET lhs == Specialize(e.children[1], ns)
           rhs == Specialize(e.children[2], ns)
       IN  (~IsError(lhs) /\ ~IsError(rhs))
           => IF lhs.type \in VALUE_TYPES /\ rhs.type \in VALUE_TYPES
              THEN LET exact == Exact(e.symbol, Denotes(lhs), Denotes(rhs))
                   IN  IF exact.d # 0
                       THEN /\ applied.result.type \in VALUE_TYPES
                            /\ Denotes(applied.result).d # 0
                            /\ Denotes(applied.result).n * exact.d =
                                  exact.n * Denotes(applied.result).d
                       ELSE applied.result = Error("ZeroDivisionError")
              ELSE applied.result = OperatorBinary(e.symbol, <<lhs, rhs>>)

C9_Witness ==
    /\ applied.op = "specialize"
    /\ e = OperatorBinary("/", <<Integer(1), Fraction(-2, 1)>>)
    /\ applied.result = Fraction(-1, 2)

(* C9, as stated: for all literal operand values specialize returns a       *)
(* literal and never a BinaryOperator (nor anything else).                  *)
C9_EveryLiteralPairFolds ==
    (applied.op = "specialize" /\ e.type = "OperatorBinary")
    => LET lhs == Specialize(e.children[1], ns)
           rhs == Specialize(e.children[2], ns)
       IN  (/\ ~IsError(lhs) /\ ~IsError(rhs)
            /\ lhs.type \in VALUE_TYPES /\ rhs.type \in VALUE_TYPES)
           => applied.result.type \in VALUE_TYPES

-----------------------------------------------------------------------------
(* C10: evaluating a rational literal of numerator n and denominator d # 0  *)
(* yields the exact rational n/d in reduced form, the sign in the           *)
(* numerator, so that two literals with n1*d2 = n2*d1 evaluate to equal     *)
(* values and a decimal text to the value it reads as; the literal node     *)
(* keeps its unreduced numerator and denominator.                           *)

DotAt(t) == CHOOSE i \in 1..Len(t) : t[i] = "."

\* the rational a decimal text reads as: sign, whole part, fractional part
Reads(t) ==
    LET negative == t[1] = "-"
        whole == Digits(SubSeq(t, IF negative THEN 2 ELSE 1, DotAt(t) - 1))
        fraction == Digits(SubSeq(t, DotAt(t) + 1, Len(t)))
        scale == Power(10, Len(t) - DotAt(t))
    IN  Rational((IF negative THEN -1 ELSE 1) * (whole * scale + fraction), scale)

C10_RationalLiteralValue ==
    /\ (applied.op = "evaluate" /\ e.type = "Fraction" /\ e.denominator # 0)
       => /\ applied.value.type = "PyFraction"
          /\ applied.value.denominator > 0
          /\ GCD(applied.value.numerator, applied.value.denominator) = 1
          /\ applied.value.numerator * e.denominator =
                e.numerator * applied.value.denominator
          /\ \A f \in Fractions :
                (/\ f.denominator # 0
                 /\ f.numerator * e.denominator = e.numerator * f.denominator)
                => Value(f, ns) = applied.value
          /\ parsed # <<>> => Equals(applied.value, Reads(parsed))
    /\ parsed # <<>>
       => /\ e.type = "Fraction"
          /\ e.denominator = Reads(parsed).d
          /\ e.numerator = Reads(parsed).n
    /\ (applied.op = "specialize" /\ e.type = "Fraction")
       => applied.result = e

C10_Witness ==
    /\ applied.op = "evaluate"
    /\ parsed = <<"9", ".", "1", "2">>
    /\ e = Fraction(912, 100)
    /\ applied.value = Number("PyFraction", 228, 25)

-----------------------------------------------------------------------------
(* C11: specialize returns the original expression instance, not merely an  *)
(* equal copy, whenever nothing applies: for every literal and any          *)
(* namespace, for every Reference whose identifier is not in the namespace, *)
(* and for every BinaryOperator in whose subtree no reference is bound in   *)
(* the namespace and nothing is literal.                                    *)

\* the literals in the tree x
RECURSIVE LiteralsIn(_)
LiteralsIn(x) ==
    CASE x.type \in VALUE_TYPES -> {x}
      [] x.type = "Reference" -> {}
      [] x.type = "OperatorBinary" ->
            LiteralsIn(x.children[1]) \cup LiteralsIn(x.children[2])

\* neither a substitution nor a fold applies to x under namespace_
NothingApplies(x, namespace_) ==
    CASE x.type \in VALUE_TYPES -> TRUE
      [] x.type = "Reference" -> x.identifier \notin DOMAIN namespace_
      [] x.type = "OperatorBinary" ->
            /\ References(x) \cap DOMAIN namespace_ = {}
            /\ LiteralsIn(x) = {}

C11_SpecializeReturnsOriginal ==
    (applied.op = "specialize" /\ NothingApplies(e, ns))
    => /\ applied.result = e
       /\ applied.same

-----------------------------------------------------------------------------
(* C12: processing every instruction of a finite stream terminates and      *)
(* every Evaluate ends in a value or a diagnostic, also when a name is      *)
(* assigned an expression that refers to itself directly or through other   *)
(* names (a := a + 2 followed by Evaluate(a); a := b; b := a followed by    *)
(* Evaluate(a)): reference resolution never recurses without bound.  The    *)
(* recursion the interpreter cuts off at its depth limit is the             *)
(* RecursionError that ends the loop.                                       *)
C12_ResolutionNeverRecursesWithoutBound ==
    raised.type # "RecursionError"

====
